---- MODULE Spec2Model ----
(***************************************************************************)
(* Model of backend/services/progress_tracker.py (ProgressTracker and its  *)
(* entities) of peterspr/listing_extractor.                                *)
(*                                                                         *)
(* Python objects are references: _sessions maps a session id to a         *)
(* SessionProgress object, _file_progress maps it to a dict object whose   *)
(* values are FileProgress objects.  The three heaps below hold the        *)
(* objects; 0 is None / "no entry".                                        *)
(***************************************************************************)
EXTENDS Integers, Sequences, FiniteSets, TLC

\* ------------------------------------------------------------------ bounds
\* Largest total_files / file count the arithmetic specification draws.
MaxTotal == 50
\* Object slots of each heap (live SessionProgress, dict, FileProgress).
NSessObj == 3
NDictObj == 3
NFileObj == 6
\* Calls the threads of a concurrent specification may start in all.
MaxCalls == 3

\* ------------------------------------------------- IEEE-754 binary64 model
\* Python evaluates int(((completed + failed) / total_files) * 100) in
\* binary64: a correctly rounded division, a correctly rounded product and
\* a truncation.  Significands are sequences of bits, most significant
\* first, so that no intermediate value exceeds a small integer.
MantBits == 53

\* Number of binary digits of q >= 0 (0 for q = 0).
BitLen(q) == Cardinality({i \in 0..30 : 2^i <= q})

\* Binary digits of q >= 0, most significant first (empty for 0).
BinDigits(q) == [i \in 1..BitLen(q) |-> (q \div 2^(BitLen(q) - i)) % 2]

\* Value of a short bit sequence.
BitsToNat(bits) ==
    LET v[i \in 0..Len(bits)] == IF i = 0 THEN 0 ELSE 2 * v[i - 1] + bits[i]
    IN  v[Len(bits)]

\* bits + 1; one bit longer when every bit was 1.
IncBits(bits) ==
    LET zeros == {i \in 1..Len(bits) : bits[i] = 0}
        p     == CHOOSE i \in zeros : \A j \in zeros : j <= i
    IN  IF zeros = {} THEN <<1>> \o [i \in 1..Len(bits) |-> 0]
        ELSE [i \in 1..Len(bits) |->
                 IF i < p THEN bits[i] ELSE IF i = p THEN 1 ELSE 0]

\* Round-to-nearest-even of a significand `bits` (first bit 1, at least
\* MantBits + 1 long, leading bit worth 2^e); `sticky` tells whether nonzero
\* bits follow those given.
RoundNearestEven(bits, e, sticky) ==
    LET m     == SubSeq(bits, 1, MantBits)
        guard == bits[MantBits + 1]
        rest  == \E i \in (MantBits + 2)..Len(bits) : bits[i] = 1
        up    == guard = 1 /\ (sticky \/ rest \/ m[MantBits] = 1)
        inc   == IncBits(m)
    IN  IF ~up THEN [m |-> m, e |-> e]
        ELSE IF Len(inc) > MantBits
             THEN [m |-> SubSeq(inc, 1, MantBits), e |-> e + 1]
             ELSE [m |-> inc, e |-> e]

\* k / n for integers k >= 1, n >= 1, as a binary64 value [m, e]: the
\* integer part followed by the long division of the remainder, cut after
\* MantBits + 1 significant bits and rounded.
FloatDiv(k, n) ==
    LET ip  == BinDigits(k \div n)
        N   == MantBits + 1 + BitLen(n)
        rem[i \in 0..N] == IF i = 0 THEN k % n ELSE (2 * rem[i - 1]) % n
        fr  == [i \in 1..N |-> (2 * rem[i - 1]) \div n]
        z   == IF ip # << >> THEN 0
               ELSE Cardinality({i \in 1..N : \A j \in 1..i : fr[j] = 0})
        all == ip \o SubSeq(fr, z + 1, N)
        e   == IF ip = << >> THEN -(z + 1) ELSE Len(ip) - 1
        cut == MantBits + 1 - Len(ip) + z
    IN  IF k % n = 0
        THEN [m |-> ip \o [i \in 1..(MantBits - Len(ip)) |-> 0], e |-> e]
        ELSE RoundNearestEven(SubSeq(all, 1, MantBits + 1), e, rem[cut] # 0)

\* bits * c for a small c, most significant first.
MulSmall(bits, c) ==
    LET L == Len(bits)
        \* carry[i]: carry out of the i lowest columns
        carry[i \in 0..L] ==
            IF i = 0 THEN 0 ELSE (bits[L - i + 1] * c + carry[i - 1]) \div 2
        low == [i \in 1..L |-> (bits[i] * c + carry[L - i]) % 2]
    IN  BinDigits(carry[L]) \o low

\* x * c for a binary64 x = [m, e] and a small positive integer c.
FloatMulSmall(x, c) ==
    LET p == MulSmall(x.m, c)
    IN  IF Len(p) = MantBits THEN [m |-> p, e |-> x.e]
        ELSE RoundNearestEven(p, x.e + (Len(p) - MantBits), FALSE)

\* int(x) for a binary64 x >= 0 below 2^31: truncation toward zero.
FloatToInt(x) == IF x.e < 0 THEN 0 ELSE BitsToNat(SubSeq(x.m, 1, x.e + 1))

\* int((done / total) * 100) as Python computes it.
PercentOf(done, total) ==
    IF done = 0 THEN 0 ELSE FloatToInt(FloatMulSmall(FloatDiv(done, total), 100))

\* --------------------------------------------------------- value domains
PENDING    == "pending"
EXTRACTING == "extracting"
PROCESSING == "processing"
COMPLETED  == "completed"
FAILED     == "failed"
ExtractionStatus == {PENDING, EXTRACTING, PROCESSING, COMPLETED, FAILED}

\* None, as a reference and as an error_message.
None    == 0
NoError == "None"

\* Longest file_ids / filenames list a caller passes.
MaxFiles == 2

Sids      == {"s1", "s2"}
FileIds   == {"f1", "f2"}
\* The filenames list of a call: a.pdf, b.pdf, ... cut at any length.
AllNames  == <<"a.pdf", "b.pdf", "c.pdf", "d.pdf">>
NameLists == {SubSeq(AllNames, 1, n) : n \in 0..MaxFiles}
ProgressArgs == {0, 100}
ErrorArgs    == {NoError, "parse error"}

ListsOver(S) == UNION {[1..n -> S] : n \in 0..MaxFiles}

\* A free heap slot.
NoObj == [free |-> TRUE]

VARIABLES
    sessions,       \* self._sessions: session_id -> SessionProgress object (0: no key)
    file_progress,  \* self._file_progress: session_id -> dict object (0: no key)
    heapS,          \* SessionProgress objects
    heapD,          \* dict objects: [items: file_id -> FileProgress object (0: no key)]
    heapF,          \* FileProgress objects
    handles,        \* references a caller got back from the get_* operations
    threads,        \* per thread: the call in progress, its position and locals
    fdone, ftotal, fout  \* inputs and result of the progress arithmetic

vars == <<sessions, file_progress, heapS, heapD, heapF, handles, threads,
          fdone, ftotal, fout>>

\* The tracker's state as one value: [sessions, file_progress, S, D, F].
Cur == [sessions |-> sessions, file_progress |-> file_progress,
        S |-> heapS, D |-> heapD, F |-> heapF]

EmptyTracker ==
    [sessions |-> [s \in Sids |-> None], file_progress |-> [s \in Sids |-> None],
     S |-> [i \in 1..NSessObj |-> NoObj], D |-> [i \in 1..NDictObj |-> NoObj],
     F |-> [i \in 1..NFileObj |-> NoObj]]

\* ------------------------------------------------------------ allocation
FreeSlots(heap) == {i \in DOMAIN heap : heap[i] = NoObj}
HasFree(heap) == FreeSlots(heap) # {}
Alloc(heap) ==
    CHOOSE i \in DOMAIN heap : heap[i] = NoObj /\ \A j \in 1..(i - 1) : heap[j] # NoObj

\* Reference counting: an object no reference leads to is freed.  rS, rD, rF
\* are the references held outside the tracker (locals of running calls,
\* values handed to callers).
Sweep(T, rS, rD, rF) ==
    LET liveS == ({T.sessions[s] : s \in Sids} \cup rS) \ {None}
        liveD == ({T.file_progress[s] : s \in Sids} \cup rD) \ {None}
        liveF == ({T.D[d].items[f] : d \in liveD, f \in FileIds}
                  \cup {T.S[o].current_file : o \in liveS} \cup rF) \ {None}
    IN  [T EXCEPT !.S = [i \in DOMAIN T.S |-> IF i \in liveS THEN T.S[i] ELSE NoObj],
                  !.D = [i \in DOMAIN T.D |-> IF i \in liveD THEN T.D[i] ELSE NoObj],
                  !.F = [i \in DOMAIN T.F |-> IF i \in liveF THEN T.F[i] ELSE NoObj]]

\* --------------------------------------------- initialize_session, by line
\* Variant of lines 69-76 that takes total_files from the distinct file_ids.
NewSession_Distinct(T, session_id, file_ids) ==
    [T EXCEPT !.S[Alloc(T.S)] =
                  [session_id |-> session_id,
                   total_files |-> Cardinality({file_ids[i] : i \in DOMAIN file_ids}),
                   completed_files |-> 0, failed_files |-> 0, current_file |-> None,
                   overall_progress |-> 0, status |-> PENDING],
              !.sessions[session_id] = Alloc(T.S)]
\* lines 69-76: self._sessions[session_id] = SessionProgress(...)
NewSession(T, session_id, file_ids) ==
    LET o == Alloc(T.S)
    IN  [T EXCEPT !.S[o] = [session_id |-> session_id,
                            total_files |-> Len(file_ids),
                            completed_files |-> 0,
                            failed_files |-> 0,
                            current_file |-> None,
                            overall_progress |-> 0,
                            status |-> PENDING],
                  !.sessions[session_id] = o]

\* Variant of line 79 that keeps a file map the session already has.
NewFileMap_Keep(T, session_id) ==
    IF T.file_progress[session_id] # None THEN T
    ELSE [T EXCEPT !.D[Alloc(T.D)] = [items |-> [f \in FileIds |-> None]],
                   !.file_progress[session_id] = Alloc(T.D)]
\* line 79: self._file_progress[session_id] = {}
NewFileMap(T, session_id) ==
    LET d == Alloc(T.D)
    IN  [T EXCEPT !.D[d] = [items |-> [f \in FileIds |-> None]],
                  !.file_progress[session_id] = d]

\* Variant of lines 81-86 that registers the file as already started.
NewFile_Started(T, session_id, file_id, filename) ==
    [T EXCEPT !.F[Alloc(T.F)] = [file_id |-> file_id, filename |-> filename,
                                 status |-> EXTRACTING, progress |-> 25,
                                 error_message |-> NoError],
              !.D[T.file_progress[session_id]].items[file_id] = Alloc(T.F)]
\* lines 81-86, one iteration of the loop over zip(file_ids, filenames):
\* self._file_progress[session_id][file_id] = FileProgress(...)
NewFile(T, session_id, file_id, filename) ==
    LET o == Alloc(T.F)
        d == T.file_progress[session_id]
    IN  [T EXCEPT !.F[o] = [file_id |-> file_id,
                            filename |-> filename,
                            status |-> PENDING,
                            progress |-> 0,
                            error_message |-> NoError],
                  !.D[d].items[file_id] = o]

\* zip(file_ids, filenames) stops at the shorter list.
ZipLen(file_ids, filenames) ==
    IF Len(file_ids) <= Len(filenames) THEN Len(file_ids) ELSE Len(filenames)

\* ------------------------------------------ update_file_progress, by line
\* line 118 / 119 / 120: the three field writes on the FileProgress object
SetFileStatus(T, fo, status)     == [T EXCEPT !.F[fo].status = status]
SetFileProgress(T, fo, progress) == [T EXCEPT !.F[fo].progress = progress]
\* Variant of line 120 that stores the message in the filename.
SetFileError_Filename(T, fo, error_message) == [T EXCEPT !.F[fo].filename = error_message]
SetFileError(T, fo, error_message) == [T EXCEPT !.F[fo].error_message = error_message]

\* Variant of lines 136 / 137 that also counts the files being processed.
CountStatus_WithProcessing(T, files, status) ==
    Cardinality({f \in FileIds : /\ T.D[files].items[f] # None
                                 /\ T.F[T.D[files].items[f]].status \in {status, PROCESSING}})
\* lines 136 / 137: sum(1 for f in files.values() if f.status == status)
CountStatus(T, files, status) ==
    Cardinality({f \in FileIds : /\ T.D[files].items[f] # None
                                 /\ T.F[T.D[files].items[f]].status = status})

\* lines 146-149
\* line 147 for the counts a session of at most MaxFiles files can show,
\* evaluated once, up to the largest completed + failed two counts of the
\* registered files can give: PercentRow(t)[d + 1] = int((d / t) * 100).
MaxDone == 2 * Cardinality(FileIds)
PercentRow(t) ==
    LET row[d \in 0..MaxDone] ==
            IF d = 0 THEN <<PercentOf(0, t)>> ELSE Append(row[d - 1], PercentOf(d, t))
    IN  row[MaxDone]
Percent ==
    LET tbl[t \in 1..MaxFiles] ==
            IF t = 1 THEN <<PercentRow(1)>> ELSE Append(tbl[t - 1], PercentRow(t))
    IN  tbl[MaxFiles]

OverallProgress(done, total_files) ==
    IF total_files > 0 THEN Percent[total_files][done + 1] ELSE 100

\* Variants of lines 152-160 with a plausible slip each.
\* "failed" as soon as one file failed:
SessionStatus_AnyFailed(completed, failed, total_files) ==
    IF completed + failed = total_files
    THEN IF failed > 0 THEN FAILED ELSE COMPLETED
    ELSE IF completed + failed > 0 THEN PROCESSING ELSE PENDING
\* terminal test on the completed count alone:
SessionStatus_CompletedOnly(completed, failed, total_files) ==
    IF completed = total_files
    THEN COMPLETED
    ELSE IF completed + failed > 0 THEN PROCESSING ELSE PENDING

\* "processing" even before any file is counted:
SessionStatus_NeverPending(completed, failed, total_files) ==
    IF completed + failed = total_files
    THEN IF failed = total_files THEN FAILED ELSE COMPLETED
    ELSE IF completed + failed >= 0 THEN PROCESSING ELSE PENDING

\* lines 152-160
SessionStatus(completed, failed, total_files) ==
    IF completed + failed = total_files
    THEN IF failed = total_files THEN FAILED ELSE COMPLETED
    ELSE IF completed + failed > 0 THEN PROCESSING ELSE PENDING

\* line 139 / 140 / 143 / 146-149 / 152-160: the writes on the session object
SetCompleted(T, session, completed) == [T EXCEPT !.S[session].completed_files = completed]
\* Variant of line 140 that stores the count in the wrong field.
SetFailed_WrongField(T, session, failed) ==
    [T EXCEPT !.S[session].completed_files = failed]
SetFailed(T, session, failed)       == [T EXCEPT !.S[session].failed_files = failed]
\* Variant of line 143 that sets current_file only when there is none yet.
SetCurrentFile_Once(T, session, files, current_file_id) ==
    IF T.S[session].current_file # None THEN T
    ELSE [T EXCEPT !.S[session].current_file = T.D[files].items[current_file_id]]
SetCurrentFile(T, session, files, current_file_id) ==
    [T EXCEPT !.S[session].current_file = T.D[files].items[current_file_id]]
SetOverallProgress(T, session, completed, failed) ==
    [T EXCEPT !.S[session].overall_progress =
                  OverallProgress(completed + failed, T.S[session].total_files)]
SetSessionStatus(T, session, completed, failed) ==
    [T EXCEPT !.S[session].status =
                  SessionStatus(completed, failed, T.S[session].total_files)]

\* -------------------------------------------------- references held outside
NoHandles == [session |-> None, files |-> None, file |-> None]
Threads   == {"t1", "t2"}
IdleThread == [pc |-> "idle", calls |-> 0, op |-> "none", sid |-> "s1", fid |-> "f1",
               status |-> PENDING, progress |-> 0, error |-> NoError,
               file_ids |-> << >>, filenames |-> << >>, i |-> 0,
               file_progress |-> None, session |-> None, files |-> None,
               completed |-> 0, failed |-> 0, out |-> << >>, result |-> "none"]

RootsS(thr, hnd) == {thr[t].session : t \in Threads} \cup {hnd.session}
RootsD(thr, hnd) == {thr[t].files : t \in Threads} \cup {hnd.files}
RootsF(thr, hnd) == {thr[t].file_progress : t \in Threads} \cup {hnd.file}

\* The state after a step: the tracker T with unreferenced objects freed.
Commit(T, thr, hnd) ==
    LET N == Sweep(T, RootsS(thr, hnd), RootsD(thr, hnd), RootsF(thr, hnd))
    IN  /\ sessions' = N.sessions
        /\ file_progress' = N.file_progress
        /\ heapS' = N.S
        /\ heapD' = N.D
        /\ heapF' = N.F
        /\ threads' = thr
        /\ handles' = hnd

\* ------------------------------------------------- the operations, whole
\* initialize_session (lines 54-88) run without interruption.
InitializeSession(T, thr, hnd, session_id, file_ids, filenames) ==
    LET T1 == NewFileMap(NewSession(T, session_id, file_ids), session_id)
        \* the old session, file map and files are unreferenced from here on
        T2 == Sweep(T1, RootsS(thr, hnd), RootsD(thr, hnd), RootsF(thr, hnd))
        loop[i \in 0..ZipLen(file_ids, filenames)] ==
            IF i = 0 THEN T2
            ELSE NewFile(loop[i - 1], session_id, file_ids[i], filenames[i])
    IN  loop[ZipLen(file_ids, filenames)]

\* _update_session_progress (lines 127-160) run without interruption.
UpdateSessionProgress(T, session_id, current_file_id) ==
    IF T.sessions[session_id] = None THEN T
    ELSE LET session   == T.sessions[session_id]
             files     == T.file_progress[session_id]
             completed == CountStatus(T, files, COMPLETED)
             failed    == CountStatus(T, files, FAILED)
             A == SetCompleted(T, session, completed)
             B == SetFailed(A, session, failed)
             C == SetCurrentFile(B, session, files, current_file_id)
             D == SetOverallProgress(C, session, completed, failed)
         IN  SetSessionStatus(D, session, completed, failed)

\* update_file_progress (lines 90-125) run without interruption.
\* Variant without the test of lines 112-114.
UpdateFileProgress_NoFileCheck(T, session_id, file_id, status, progress, error_message) ==
    IF T.file_progress[session_id] = None THEN T
    ELSE IF T.D[T.file_progress[session_id]].items[file_id] = None
         THEN UpdateSessionProgress(T, session_id, file_id)
    ELSE LET fo == T.D[T.file_progress[session_id]].items[file_id]
         IN  UpdateSessionProgress(
                 SetFileError(SetFileProgress(SetFileStatus(T, fo, status), fo, progress),
                              fo, error_message),
                 session_id, file_id)
\* update_file_progress (lines 90-125) run without interruption.
UpdateFileProgress(T, session_id, file_id, status, progress, error_message) ==
    IF T.file_progress[session_id] = None THEN T
    ELSE IF T.D[T.file_progress[session_id]].items[file_id] = None THEN T
    ELSE LET fo == T.D[T.file_progress[session_id]].items[file_id]
             A  == SetFileStatus(T, fo, status)
             B  == SetFileProgress(A, fo, progress)
             C  == SetFileError(B, fo, error_message)
         IN  UpdateSessionProgress(C, session_id, file_id)

\* remove_session: lines 178-179, then lines 180-181.
DelSession(T, session_id) == [T EXCEPT !.sessions[session_id] = None]
\* Variant of lines 180-181 that leaves the file map in place.
DelFileMap_Keep(T, session_id) == T
DelFileMap(T, session_id) == [T EXCEPT !.file_progress[session_id] = None]
RemoveSession(T, session_id) == DelFileMap(DelSession(T, session_id), session_id)

\* The read operations return the object itself (lines 164, 169, 174).
GetSessionProgress(T, session_id) == T.sessions[session_id]
GetFileProgress(T, session_id, file_id) ==
    IF T.file_progress[session_id] # None
    THEN T.D[T.file_progress[session_id]].items[file_id]
    ELSE None

\* asdict(file_progress): the field values at the time of the call.
AsDict(T, fo) == T.F[fo]

\* to_dict (lines 184-202) run without interruption; << >> is {}.
ToDict(T, session_id) ==
    LET session == GetSessionProgress(T, session_id)
        d       == T.file_progress[session_id]
    IN  IF session = None THEN << >>
        ELSE [session_id |-> T.S[session].session_id,
              total_files |-> T.S[session].total_files,
              completed_files |-> T.S[session].completed_files,
              failed_files |-> T.S[session].failed_files,
              overall_progress |-> T.S[session].overall_progress,
              status |-> T.S[session].status,
              current_file |-> IF T.S[session].current_file # None
                               THEN AsDict(T, T.S[session].current_file) ELSE None,
              files |-> IF d = None THEN << >>
                        ELSE [f \in {g \in FileIds : T.D[d].items[g] # None} |->
                                 AsDict(T, T.D[d].items[f])]]

\* ------------------------------------------- sequential use of the tracker
\* Session ids the sequential caller initializes; every operation also
\* takes the ids it never initialized.
InitSids == {"s1"}

FIdle == fdone = 0 /\ ftotal = 1 /\ fout = 0

Init ==
    /\ sessions = EmptyTracker.sessions
    /\ file_progress = EmptyTracker.file_progress
    /\ heapS = EmptyTracker.S
    /\ heapD = EmptyTracker.D
    /\ heapF = EmptyTracker.F
    /\ handles = NoHandles
    /\ threads = [t \in Threads |-> IdleThread]
    /\ FIdle

Initialize(session_id, file_ids, filenames) ==
    /\ HasFree(heapS) /\ HasFree(heapD)
    /\ Cardinality(FreeSlots(heapF)) >= ZipLen(file_ids, filenames)
    /\ Commit(InitializeSession(Cur, threads, handles, session_id, file_ids, filenames),
              threads, handles)
    /\ UNCHANGED <<fdone, ftotal, fout>>

Update(session_id, file_id, status, progress, error_message) ==
    /\ Commit(UpdateFileProgress(Cur, session_id, file_id, status, progress, error_message),
              threads, handles)
    /\ UNCHANGED <<fdone, ftotal, fout>>

Remove(session_id) ==
    /\ Commit(RemoveSession(Cur, session_id), threads, handles)
    /\ UNCHANGED <<fdone, ftotal, fout>>

Next ==
    \/ \E sid \in InitSids, ids \in ListsOver(FileIds), names \in NameLists :
          Initialize(sid, ids, names)
    \/ \E sid \in Sids, fid \in FileIds, st \in ExtractionStatus,
          p \in ProgressArgs, e \in ErrorArgs :
          Update(sid, fid, st, p, e)
    \/ \E sid \in Sids : Remove(sid)

Spec == Init /\ [][Next]_vars

\* ------------------------------------------------------ reading the state
Present(sid)  == sessions[sid] # None
Sess(sid)     == heapS[sessions[sid]]
FileKeys(sid) ==
    IF file_progress[sid] = None THEN {}
    ELSE {f \in FileIds : heapD[file_progress[sid]].items[f] # None}
FileOf(sid, f) == heapF[heapD[file_progress[sid]].items[f]]
NumWith(sid, status) == Cardinality({f \in FileKeys(sid) : FileOf(sid, f).status = status})
Done(sid)     == Sess(sid).completed_files + Sess(sid).failed_files
Terminal(sid) == Sess(sid).status \in {COMPLETED, FAILED}
AllFilesTerminal(sid) == \A f \in FileKeys(sid) : FileOf(sid, f).status \in {COMPLETED, FAILED}
\* initialize_session got unique file_ids and a filename for each: every
\* one of the total_files ids is registered.
WellInitialized(sid) == Sess(sid).total_files = Cardinality(FileKeys(sid))
\* An update has written a file of the session since it was initialized
\* (line 143 is the only place current_file is set).
Updated(sid) == Sess(sid).current_file # None

\* ------------------------------------------------------------------ C1
\* C1: in every state of a sequential run, completed_files is the number of
\* files whose status is completed, failed_files the number whose status is
\* failed, and completed_files + failed_files <= total_files.
C1_Aggregation ==
    \A sid \in Sids : Present(sid) =>
        /\ Sess(sid).completed_files = NumWith(sid, COMPLETED)
        /\ Sess(sid).failed_files = NumWith(sid, FAILED)
        /\ Done(sid) <= Sess(sid).total_files

\* A well-initialized two-file session after updates left one file completed
\* and one failed.
C1_Witness ==
    \E sid \in Sids :
        /\ Present(sid) /\ WellInitialized(sid) /\ Updated(sid)
        /\ Sess(sid).total_files = 2
        /\ NumWith(sid, COMPLETED) = 1 /\ NumWith(sid, FAILED) = 1

\* ------------------------------------------------------------------ C2
\* C2 as stated: after an update, in a session whose every file is completed
\* or failed, the status is failed iff completed_files = 0 and failed_files =
\* total_files, and completed as soon as one file is completed.
C2_Original ==
    \A sid \in Sids : (Present(sid) /\ Updated(sid) /\ AllFilesTerminal(sid)) =>
        /\ Sess(sid).status = FAILED <=>
              (Sess(sid).completed_files = 0
               /\ Sess(sid).failed_files = Sess(sid).total_files)
        /\ NumWith(sid, COMPLETED) >= 1 => Sess(sid).status = COMPLETED

\* C2, amended: the same for a session initialized with unique file_ids and
\* a filename for each of them.
C2_TerminalRule ==
    \A sid \in Sids :
        (Present(sid) /\ Updated(sid) /\ WellInitialized(sid) /\ AllFilesTerminal(sid)) =>
            /\ Sess(sid).status = FAILED <=>
                  (Sess(sid).completed_files = 0
                   /\ Sess(sid).failed_files = Sess(sid).total_files)
            /\ NumWith(sid, COMPLETED) >= 1 => Sess(sid).status = COMPLETED
            /\ Sess(sid).overall_progress = 100

\* f1 completed and f2 failed: the session is completed at 100.
C2_Witness ==
    \E sid \in Sids :
        /\ Present(sid) /\ Updated(sid) /\ WellInitialized(sid)
        /\ FileKeys(sid) = {"f1", "f2"}
        /\ FileOf(sid, "f1").status = COMPLETED /\ FileOf(sid, "f2").status = FAILED
        /\ Sess(sid).status = COMPLETED /\ Sess(sid).overall_progress = 100

\* ------------------------------------------------------------------ C3
\* C3 as stated: with total_files >= 1 the status is pending exactly when no
\* file is counted, processing exactly when some but not all are, and
\* completed or failed exactly when every file is completed or failed.
C3_Original ==
    \A sid \in Sids : (Present(sid) /\ Sess(sid).total_files >= 1) =>
        /\ Sess(sid).status = PENDING <=> Done(sid) = 0
        /\ Sess(sid).status = PROCESSING <=>
              (0 < Done(sid) /\ Done(sid) < Sess(sid).total_files)
        /\ Terminal(sid) <=> AllFilesTerminal(sid)

\* C3, amended: pending and processing as stated; a terminal status only
\* when every file is completed or failed, and exactly then if the session
\* was initialized with unique file_ids and a filename for each of them.
C3_StatusByCounts ==
    \A sid \in Sids : (Present(sid) /\ Sess(sid).total_files >= 1) =>
        /\ Sess(sid).status = PENDING <=> Done(sid) = 0
        /\ Sess(sid).status = PROCESSING <=>
              (0 < Done(sid) /\ Done(sid) < Sess(sid).total_files)
        /\ Terminal(sid) => AllFilesTerminal(sid)
        /\ WellInitialized(sid) => (Terminal(sid) <=> AllFilesTerminal(sid))

\* One of two files completed, the other still pending: processing.
C3_Witness ==
    \E sid \in Sids :
        /\ Present(sid) /\ WellInitialized(sid) /\ Sess(sid).total_files = 2
        /\ NumWith(sid, COMPLETED) = 1 /\ NumWith(sid, PENDING) = 1
        /\ Sess(sid).status = PROCESSING

\* ------------------------------------------------------------------ C9
\* C9: a session initialized with zero files reports overall_progress 100
\* and status completed.
C9_ZeroFiles ==
    \A sid \in Sids : (Present(sid) /\ Sess(sid).total_files = 0) =>
        (Sess(sid).overall_progress = 100 /\ Sess(sid).status = COMPLETED)

\* ------------------------------------------------------------------ C10
\* C10 as stated: a session that is completed or failed and stays in the
\* registry through a step is completed or failed after it (only a removal,
\* after which it is absent, leads away).
C10_Original ==
    [][\A sid \in Sids :
          (Present(sid) /\ Terminal(sid) /\ Present(sid)') => Terminal(sid)']_vars

AnyTerminalUpdate ==
    \E s \in Sids, fid \in FileIds, st \in {COMPLETED, FAILED},
       p \in ProgressArgs, e \in ErrorArgs : Update(s, fid, st, p, e)

\* C10, amended: a session that is completed or failed stays so under every
\* update_file_progress whose status argument is completed or failed, on any
\* session and file.
C10_TerminalStays ==
    [][\A sid \in Sids :
          (Present(sid) /\ Terminal(sid) /\ AnyTerminalUpdate)
              => (Present(sid)' /\ Terminal(sid)')]_vars

\* A completed session one of whose files was set to failed afterwards (the
\* error message of a failure on a file that is current).
C10_Witness ==
    \E sid \in Sids :
        /\ Present(sid) /\ Sess(sid).status = COMPLETED
        /\ Sess(sid).total_files = 2 /\ NumWith(sid, FAILED) = 1
        /\ heapF[Sess(sid).current_file].status = FAILED

\* ------------------------------------------------ calls running in threads
\* Request threads (app.run(threaded=True)) share the tracker, which takes no
\* lock: a call advances one statement at a time and other threads run in
\* between.  pc names the line about to run.
Step(t, T, th) ==
    /\ Commit(T, [threads EXCEPT ![t] = th], handles)
    /\ UNCHANGED <<fdone, ftotal, fout>>

\* The call of thread t is over ("returned", or "raised" for a KeyError): its
\* locals are dropped, what it was and what it gave back are kept.
Leave(th, result) ==
    [IdleThread EXCEPT !.calls = th.calls, !.op = th.op, !.sid = th.sid,
                       !.fid = th.fid, !.out = th.out, !.result = result]

Enter(t, op, pc) ==
    [IdleThread EXCEPT !.calls = threads[t].calls + 1, !.op = op, !.pc = pc]

CallsOf(ts) == LET n[S \in SUBSET ts] ==
                        IF S = {} THEN 0
                        ELSE LET t == CHOOSE x \in S : TRUE
                             IN  threads[t].calls + n[S \ {t}]
                IN  n[ts]
CanStart(t) == threads[t].pc = "idle" /\ CallsOf(Threads) < MaxCalls

\* ---- update_file_progress
StartUpdate(t, session_id, file_id, status, progress, error_message) ==
    /\ CanStart(t)
    /\ Step(t, Cur, [Enter(t, "update", "u108") EXCEPT
                        !.sid = session_id, !.fid = file_id, !.status = status,
                        !.progress = progress, !.error = error_message])

\* line 108: if session_id not in self._file_progress: return
U108(t) ==
    LET th == threads[t] IN
    /\ th.pc = "u108"
    /\ Step(t, Cur, IF file_progress[th.sid] = None THEN Leave(th, "returned")
                    ELSE [th EXCEPT !.pc = "u112"])

\* line 112: if file_id not in self._file_progress[session_id]: return
U112(t) ==
    LET th == threads[t] IN
    /\ th.pc = "u112"
    /\ Step(t, Cur,
            IF file_progress[th.sid] = None THEN Leave(th, "raised")
            ELSE IF heapD[file_progress[th.sid]].items[th.fid] = None
                 THEN Leave(th, "returned")
                 ELSE [th EXCEPT !.pc = "u117"])

\* line 117: file_progress = self._file_progress[session_id][file_id]
U117(t) ==
    LET th == threads[t] IN
    /\ th.pc = "u117"
    /\ Step(t, Cur,
            IF file_progress[th.sid] = None THEN Leave(th, "raised")
            ELSE IF heapD[file_progress[th.sid]].items[th.fid] = None
                 THEN Leave(th, "raised")
                 ELSE [th EXCEPT !.pc = "u118",
                                 !.file_progress = heapD[file_progress[th.sid]].items[th.fid]])

\* lines 118, 119, 120
U118(t) ==
    LET th == threads[t] IN
    /\ th.pc = "u118"
    /\ Step(t, SetFileStatus(Cur, th.file_progress, th.status), [th EXCEPT !.pc = "u119"])
U119(t) ==
    LET th == threads[t] IN
    /\ th.pc = "u119"
    /\ Step(t, SetFileProgress(Cur, th.file_progress, th.progress), [th EXCEPT !.pc = "u120"])
U120(t) ==
    LET th == threads[t] IN
    /\ th.pc = "u120"
    /\ Step(t, SetFileError(Cur, th.file_progress, th.error),
            [th EXCEPT !.pc = "u129", !.file_progress = None])

\* line 129: if session_id not in self._sessions: return
U129(t) ==
    LET th == threads[t] IN
    /\ th.pc = "u129"
    /\ Step(t, Cur, IF sessions[th.sid] = None THEN Leave(th, "returned")
                    ELSE [th EXCEPT !.pc = "u132"])

\* line 132: session = self._sessions[session_id]
U132(t) ==
    LET th == threads[t] IN
    /\ th.pc = "u132"
    /\ Step(t, Cur, IF sessions[th.sid] = None THEN Leave(th, "raised")
                    ELSE [th EXCEPT !.pc = "u133", !.session = sessions[th.sid]])

\* line 133: files = self._file_progress[session_id]
U133(t) ==
    LET th == threads[t] IN
    /\ th.pc = "u133"
    /\ Step(t, Cur, IF file_progress[th.sid] = None THEN Leave(th, "raised")
                    ELSE [th EXCEPT !.pc = "u136", !.files = file_progress[th.sid]])

\* lines 136, 137
U136(t) ==
    LET th == threads[t] IN
    /\ th.pc = "u136"
    /\ Step(t, Cur, [th EXCEPT !.pc = "u137",
                               !.completed = CountStatus(Cur, th.files, COMPLETED)])
U137(t) ==
    LET th == threads[t] IN
    /\ th.pc = "u137"
    /\ Step(t, Cur, [th EXCEPT !.pc = "u139",
                               !.failed = CountStatus(Cur, th.files, FAILED)])

\* lines 139, 140, 143, 146-149, 152-160
U139(t) ==
    LET th == threads[t] IN
    /\ th.pc = "u139"
    /\ Step(t, SetCompleted(Cur, th.session, th.completed), [th EXCEPT !.pc = "u140"])
U140(t) ==
    LET th == threads[t] IN
    /\ th.pc = "u140"
    /\ Step(t, SetFailed(Cur, th.session, th.failed), [th EXCEPT !.pc = "u143"])
U143(t) ==
    LET th == threads[t] IN
    /\ th.pc = "u143"
    /\ Step(t, SetCurrentFile(Cur, th.session, th.files, th.fid), [th EXCEPT !.pc = "u146"])
U146(t) ==
    LET th == threads[t] IN
    /\ th.pc = "u146"
    /\ Step(t, SetOverallProgress(Cur, th.session, th.completed, th.failed),
            [th EXCEPT !.pc = "u152"])
U152(t) ==
    LET th == threads[t] IN
    /\ th.pc = "u152"
    /\ Step(t, SetSessionStatus(Cur, th.session, th.completed, th.failed),
            Leave(th, "returned"))

UpdateStep(t) ==
    \/ U108(t) \/ U112(t) \/ U117(t) \/ U118(t) \/ U119(t) \/ U120(t)
    \/ U129(t) \/ U132(t) \/ U133(t) \/ U136(t) \/ U137(t)
    \/ U139(t) \/ U140(t) \/ U143(t) \/ U146(t) \/ U152(t)

\* ---- to_dict
StartToDict(t, session_id) ==
    /\ CanStart(t)
    /\ Step(t, Cur, [Enter(t, "to_dict", "d186") EXCEPT !.sid = session_id])

\* lines 186-192: session = self.get_session_progress(session_id); {} when
\* there is none, else the two fields no call ever changes
D186(t) ==
    LET th == threads[t] IN
    /\ th.pc = "d186"
    /\ Step(t, Cur,
            IF GetSessionProgress(Cur, th.sid) = None THEN Leave(th, "returned")
            ELSE [th EXCEPT !.pc = "d193", !.session = GetSessionProgress(Cur, th.sid),
                            !.out = [session_id |-> heapS[sessions[th.sid]].session_id,
                                     total_files |-> heapS[sessions[th.sid]].total_files]])

\* lines 193, 194, 195, 196: one field of the live session object each
D193(t) ==
    LET th == threads[t] IN
    /\ th.pc = "d193"
    /\ Step(t, Cur, [th EXCEPT !.pc = "d194",
            !.out = [k \in DOMAIN th.out \cup {"completed_files"} |->
                        IF k = "completed_files" THEN heapS[th.session].completed_files
                        ELSE th.out[k]]])
D194(t) ==
    LET th == threads[t] IN
    /\ th.pc = "d194"
    /\ Step(t, Cur, [th EXCEPT !.pc = "d195",
            !.out = [k \in DOMAIN th.out \cup {"failed_files"} |->
                        IF k = "failed_files" THEN heapS[th.session].failed_files
                        ELSE th.out[k]]])
D195(t) ==
    LET th == threads[t] IN
    /\ th.pc = "d195"
    /\ Step(t, Cur, [th EXCEPT !.pc = "d196",
            !.out = [k \in DOMAIN th.out \cup {"overall_progress"} |->
                        IF k = "overall_progress" THEN heapS[th.session].overall_progress
                        ELSE th.out[k]]])
D196(t) ==
    LET th == threads[t] IN
    /\ th.pc = "d196"
    /\ Step(t, Cur, [th EXCEPT !.pc = "d197",
            !.out = [k \in DOMAIN th.out \cup {"status"} |->
                        IF k = "status" THEN heapS[th.session].status ELSE th.out[k]]])

\* line 197: asdict(session.current_file) if session.current_file else None
D197(t) ==
    LET th == threads[t]
        cf == heapS[th.session].current_file
    IN
    /\ th.pc = "d197"
    /\ Step(t, Cur, [th EXCEPT !.pc = "d198",
            !.out = [k \in DOMAIN th.out \cup {"current_file"} |->
                        IF k = "current_file"
                        THEN IF cf # None THEN AsDict(Cur, cf) ELSE None
                        ELSE th.out[k]]])

\* lines 198-201: asdict of every item of get_all_files_progress(session_id)
D198(t) ==
    LET th == threads[t]
        d  == file_progress[th.sid]
        fs == IF d = None THEN << >>
              ELSE [f \in {g \in FileIds : heapD[d].items[g] # None} |->
                       AsDict(Cur, heapD[d].items[f])]
    IN
    /\ th.pc = "d198"
    /\ Step(t, Cur,
            Leave([th EXCEPT !.out = [k \in DOMAIN th.out \cup {"files"} |->
                                         IF k = "files" THEN fs ELSE th.out[k]]],
                  "returned"))

ToDictStep(t) ==
    \/ D186(t) \/ D193(t) \/ D194(t) \/ D195(t) \/ D196(t) \/ D197(t) \/ D198(t)

\* ---- initialize_session
StartInitialize(t, session_id, file_ids, filenames) ==
    /\ CanStart(t)
    /\ Step(t, Cur, [Enter(t, "initialize", "i69") EXCEPT
                        !.sid = session_id, !.file_ids = file_ids,
                        !.filenames = filenames])

\* lines 69-76
I69(t) ==
    LET th == threads[t] IN
    /\ th.pc = "i69"
    /\ HasFree(heapS)
    /\ Step(t, NewSession(Cur, th.sid, th.file_ids), [th EXCEPT !.pc = "i79"])

\* line 79
I79(t) ==
    LET th == threads[t] IN
    /\ th.pc = "i79"
    /\ HasFree(heapD)
    /\ Step(t, NewFileMap(Cur, th.sid), [th EXCEPT !.pc = "i80", !.i = 1])

\* lines 80-86: the next pair of zip(file_ids, filenames), or the end
I80(t) ==
    LET th == threads[t] IN
    /\ th.pc = "i80"
    /\ IF th.i > ZipLen(th.file_ids, th.filenames)
       THEN Step(t, Cur, Leave(th, "returned"))
       ELSE IF file_progress[th.sid] = None
            THEN Step(t, Cur, Leave(th, "raised"))
            ELSE /\ HasFree(heapF)
                 /\ Step(t, NewFile(Cur, th.sid, th.file_ids[th.i], th.filenames[th.i]),
                         [th EXCEPT !.i = th.i + 1])

InitializeStep(t) == I69(t) \/ I79(t) \/ I80(t)

\* ---- remove_session
StartRemove(t, session_id) ==
    /\ CanStart(t)
    /\ Step(t, Cur, [Enter(t, "remove", "r178") EXCEPT !.sid = session_id])

\* lines 178-179
R178(t) ==
    LET th == threads[t] IN
    /\ th.pc = "r178"
    /\ Step(t, DelSession(Cur, th.sid), [th EXCEPT !.pc = "r180"])

\* lines 180-181
R180(t) ==
    LET th == threads[t] IN
    /\ th.pc = "r180"
    /\ Step(t, DelFileMap(Cur, th.sid), Leave(th, "returned"))

RemoveStep(t) == R178(t) \/ R180(t)

\* Updates of the kind the extraction loop issues: a start, a success, a failure
\* (routes.py lines 167, 230, 178).
RouteUpdates ==
    {<<EXTRACTING, 25, NoError>>, <<COMPLETED, 100, NoError>>,
     <<FAILED, 100, "parse error">>}

\* ------------------------------ workers and a reader on one running session
\* The tracker after initialize_session("s1", ["f1","f2"], ["a.pdf","b.pdf"]).
TwoFileSession ==
    Sweep(InitializeSession(EmptyTracker, [t \in Threads |-> IdleThread], NoHandles,
                            "s1", <<"f1", "f2">>, <<"a.pdf", "b.pdf">>),
          {}, {}, {})

WInit ==
    /\ sessions = TwoFileSession.sessions
    /\ file_progress = TwoFileSession.file_progress
    /\ heapS = TwoFileSession.S
    /\ heapD = TwoFileSession.D
    /\ heapF = TwoFileSession.F
    /\ handles = NoHandles
    /\ threads = [t \in Threads |-> IdleThread]
    /\ FIdle

WNext ==
    \E t \in Threads :
        \/ \E fid \in FileIds, u \in RouteUpdates : StartUpdate(t, "s1", fid, u[1], u[2], u[3])
        \/ StartToDict(t, "s1")
        \/ UpdateStep(t)
        \/ ToDictStep(t)

WorkersSpec == WInit /\ [][WNext]_vars

\* --------------------------------- every operation, from any thread
ConcLists == {<< >>, <<"f1">>, <<"f1", "f2">>}

CNext ==
    \E t \in Threads :
        \/ \E ids \in ConcLists : StartInitialize(t, "s1", ids, SubSeq(AllNames, 1, Len(ids)))
        \/ \E fid \in FileIds, u \in RouteUpdates : StartUpdate(t, "s1", fid, u[1], u[2], u[3])
        \/ StartRemove(t, "s1")
        \/ InitializeStep(t)
        \/ UpdateStep(t)
        \/ RemoveStep(t)

ConcSpec == Init /\ [][CNext]_vars

\* ------------------------------------------------------------------ C5
\* What the session fields of a to_dict result should be, given its files.
OutCount(out, status) ==
    Cardinality({f \in DOMAIN out.files : out.files[f].status = status})
ReadBy(t) ==
    /\ threads[t].pc = "idle" /\ threads[t].op = "to_dict"
    /\ threads[t].result = "returned" /\ threads[t].out # << >>

\* C5: a reader running next to update_file_progress never gets a result
\* whose completed_files / failed_files / status differ from what the files
\* of the same result imply.
C5_ConsistentRead ==
    \A t \in Threads : ReadBy(t) =>
        LET out == threads[t].out IN
        /\ out.completed_files = OutCount(out, COMPLETED)
        /\ out.failed_files = OutCount(out, FAILED)
        /\ out.status = SessionStatus(OutCount(out, COMPLETED), OutCount(out, FAILED),
                                      out.total_files)

\* ------------------------------------------------------------------ C6
\* Both threads are back from update_file_progress, on different files.
UpdatesReturned ==
    /\ \A t \in Threads : threads[t].pc = "idle" /\ threads[t].op = "update"
    /\ \A t, u \in Threads : t # u => threads[t].fid # threads[u].fid

\* C6: once concurrent update_file_progress calls on different files of a
\* session have all returned, completed_files, failed_files,
\* overall_progress and status are the values derived from the files.
C6_NoLostUpdate ==
    (UpdatesReturned /\ Present("s1")) =>
        LET c == NumWith("s1", COMPLETED)
            f == NumWith("s1", FAILED)
        IN  /\ Sess("s1").completed_files = c
            /\ Sess("s1").failed_files = f
            /\ Sess("s1").overall_progress = OverallProgress(c + f, Sess("s1").total_files)
            /\ Sess("s1").status = SessionStatus(c, f, Sess("s1").total_files)

\* ------------------------------------------------------------------ C7
\* C7: under every interleaving of concurrent initialize_session,
\* update_file_progress and remove_session calls, every registered session
\* has completed_files + failed_files <= total_files and overall_progress
\* <= 100.
C7_CountsWithinTotal ==
    \A sid \in Sids : Present(sid) =>
        /\ Done(sid) <= Sess(sid).total_files
        /\ Sess(sid).overall_progress <= 100

\* ----------------------------------- a caller that keeps what the reads return
\* line 174: self._file_progress.get(session_id, {}): the registered dict
\* object, or a new empty one.
GetAllFilesProgress(T, session_id) ==
    IF T.file_progress[session_id] # None
    THEN [T |-> T, ref |-> T.file_progress[session_id]]
    ELSE [T |-> [T EXCEPT !.D[Alloc(T.D)] = [items |-> [f \in FileIds |-> None]]],
          ref |-> Alloc(T.D)]

\* The caller keeps one returned value at a time.
HoldSession(session_id) ==
    /\ handles = NoHandles
    /\ Commit(Cur, threads, [handles EXCEPT !.session = GetSessionProgress(Cur, session_id)])
    /\ UNCHANGED <<fdone, ftotal, fout>>

HoldFile(session_id, file_id) ==
    /\ handles = NoHandles
    /\ Commit(Cur, threads,
              [handles EXCEPT !.file = GetFileProgress(Cur, session_id, file_id)])
    /\ UNCHANGED <<fdone, ftotal, fout>>

HoldAllFiles(session_id) ==
    /\ handles = NoHandles
    /\ file_progress[session_id] = None => HasFree(heapD)
    /\ Commit(GetAllFilesProgress(Cur, session_id).T, threads,
              [handles EXCEPT !.files = GetAllFilesProgress(Cur, session_id).ref])
    /\ UNCHANGED <<fdone, ftotal, fout>>

\* The caller lets go of everything it held.
Release ==
    /\ handles # NoHandles
    /\ Commit(Cur, threads, NoHandles)
    /\ UNCHANGED <<fdone, ftotal, fout>>

\* The caller assigns to a field of a returned object, or deletes a key of
\* the returned mapping.
CallerSetSessionStatus(status) ==
    /\ handles.session # None
    /\ Commit([Cur EXCEPT !.S[handles.session].status = status], threads, handles)
    /\ UNCHANGED <<fdone, ftotal, fout>>

CallerSetFileStatus(status) ==
    /\ handles.file # None
    /\ Commit(SetFileStatus(Cur, handles.file, status), threads, handles)
    /\ UNCHANGED <<fdone, ftotal, fout>>

CallerDelKey(file_id) ==
    /\ handles.files # None
    /\ heapD[handles.files].items[file_id] # None
    /\ Commit([Cur EXCEPT !.D[handles.files].items[file_id] = None], threads, handles)
    /\ UNCHANGED <<fdone, ftotal, fout>>

CallerMutates ==
    \/ CallerSetSessionStatus(FAILED)
    \/ CallerSetFileStatus(FAILED)
    \/ \E fid \in FileIds : CallerDelKey(fid)

\* The updates that end a file (routes.py lines 178, 230).
FinalUpdates == {u \in RouteUpdates : u[1] \in {COMPLETED, FAILED}}
CallerUpdates ==
    \E fid \in FileIds, u \in FinalUpdates : Update("s1", fid, u[1], u[2], u[3])

CallerNext ==
    \/ \E ids \in ConcLists : Initialize("s1", ids, SubSeq(AllNames, 1, Len(ids)))
    \/ CallerUpdates
    \/ Remove("s1")
    \/ HoldSession("s1")
    \/ \E fid \in FileIds : HoldFile("s1", fid)
    \/ HoldAllFiles("s1")
    \/ Release
    \/ CallerMutates

CallerSpec == Init /\ [][CallerNext]_vars

\* ------------------------------------------------------------------ C8
\* What the tracker's reads report, by value.
View == [sid \in Sids |-> ToDict(Cur, sid)]

\* What the values the caller holds contain.
Held ==
    [session |-> IF handles.session = None THEN << >>
                 ELSE LET o == heapS[handles.session]
                      IN  [o EXCEPT !.current_file =
                              IF o.current_file = None THEN None
                              ELSE 1] @@
                          [current |-> IF o.current_file = None THEN << >>
                                       ELSE heapF[o.current_file]],
     files   |-> IF handles.files = None THEN << >>
                 ELSE [f \in {g \in FileIds : heapD[handles.files].items[g] # None} |->
                          heapF[heapD[handles.files].items[f]]],
     file    |-> IF handles.file = None THEN << >> ELSE heapF[handles.file]]

\* C8: a caller changing a value it got from get_session_progress,
\* get_file_progress or get_all_files_progress changes nothing the tracker's
\* reads report, and an update_file_progress changes nothing of the values
\* the caller already holds.
C8_SnapshotIsolation ==
    [][/\ CallerMutates => View' = View
       /\ CallerUpdates => Held' = Held]_vars

\* --------------------------- sequential calls, with the last call on record
\* One caller runs whole operations one after the other; threads["t1"] keeps
\* which call came last and with which arguments.
\* i is 1 when the session id was registered as the call began, else 0.
LastCall(op, session_id, file_id, file_ids, filenames, out) ==
    [threads EXCEPT !["t1"] =
        [IdleThread EXCEPT !.op = op, !.sid = session_id, !.fid = file_id,
                           !.file_ids = file_ids, !.filenames = filenames,
                           !.i = IF sessions[session_id] # None THEN 1 ELSE 0,
                           !.out = out, !.result = "returned"]]

CallInitialize(session_id, file_ids, filenames) ==
    /\ HasFree(heapS) /\ HasFree(heapD)
    /\ Cardinality(FreeSlots(heapF)) >= ZipLen(file_ids, filenames)
    /\ Commit(InitializeSession(Cur, threads, handles, session_id, file_ids, filenames),
              LastCall("initialize", session_id, "f1", file_ids, filenames, << >>),
              handles)
    /\ UNCHANGED <<fdone, ftotal, fout>>

CallUpdate(session_id, file_id, status, progress, error_message) ==
    /\ Commit(UpdateFileProgress(Cur, session_id, file_id, status, progress, error_message),
              LastCall("update", session_id, file_id, << >>, << >>, << >>), handles)
    /\ UNCHANGED <<fdone, ftotal, fout>>

CallRemove(session_id) ==
    /\ Commit(RemoveSession(Cur, session_id),
              LastCall("remove", session_id, "f1", << >>, << >>, << >>), handles)
    /\ UNCHANGED <<fdone, ftotal, fout>>

CallToDict(session_id) ==
    /\ Commit(Cur, LastCall("to_dict", session_id, "f1", << >>, << >>,
                            ToDict(Cur, session_id)), handles)
    /\ UNCHANGED <<fdone, ftotal, fout>>

\* file_ids lists with a filename for each id.
CallLists == ListsOver(FileIds)
CallAnyUpdate ==
    \E sid \in Sids, fid \in FileIds, u \in RouteUpdates :
        CallUpdate(sid, fid, u[1], u[2], u[3])

CallNext ==
    \/ \E sid \in InitSids, ids \in CallLists :
          CallInitialize(sid, ids, SubSeq(AllNames, 1, Len(ids)))
    \/ CallAnyUpdate
    \/ \E sid \in Sids : CallRemove(sid)
    \/ \E sid \in Sids : CallToDict(sid)

CallSpec == Init /\ [][CallNext]_vars

Last == threads["t1"]
Range(seq) == {seq[i] : i \in DOMAIN seq}
Unique(seq) == Cardinality(Range(seq)) = Len(seq)
Registry == <<sessions, file_progress, heapS, heapD, heapF>>

\* ------------------------------------------------------------------ C11
\* C11: right after initialize_session(sid, file_ids, filenames) with N
\* unique file_ids and N filenames, the file map has exactly the N given
\* ids, each pending with progress 0 and no error_message, and the session
\* has total_files = N, completed_files = 0, failed_files = 0, status
\* pending and no current_file.
C11_FreshSession ==
    (/\ Last.op = "initialize"
     /\ Unique(Last.file_ids) /\ Len(Last.file_ids) = Len(Last.filenames)) =>
        /\ Present(Last.sid)
        /\ FileKeys(Last.sid) = Range(Last.file_ids)
        /\ Cardinality(FileKeys(Last.sid)) = Len(Last.file_ids)
        /\ \A f \in FileKeys(Last.sid) :
              /\ FileOf(Last.sid, f).file_id = f
              /\ FileOf(Last.sid, f).status = PENDING
              /\ FileOf(Last.sid, f).progress = 0
              /\ FileOf(Last.sid, f).error_message = NoError
        /\ Sess(Last.sid).total_files = Len(Last.file_ids)
        /\ Sess(Last.sid).completed_files = 0
        /\ Sess(Last.sid).failed_files = 0
        /\ Sess(Last.sid).status = PENDING
        /\ Sess(Last.sid).current_file = None

\* The state right after initialize_session("s1", ["f1","f2"], ["a.pdf","b.pdf"]).
C11_Witness ==
    /\ Last.op = "initialize" /\ Last.sid = "s1"
    /\ Last.file_ids = <<"f1", "f2">> /\ Last.filenames = <<"a.pdf", "b.pdf">>
    /\ Cardinality(FileKeys("s1")) = 2

\* ------------------------------------------------------------------ C12
\* C12: update_file_progress on a session_id that is not registered, or on a
\* file_id that is not a file of the session, returns and leaves the whole
\* registry (both maps, every session and file object) as it was.
C12_UnknownIdNoOp ==
    [][\A sid \in Sids, fid \in FileIds, u \in RouteUpdates :
          (/\ CallUpdate(sid, fid, u[1], u[2], u[3])
           /\ (~Present(sid) \/ fid \notin FileKeys(sid)))
              => (Registry' = Registry /\ Last'.result = "returned")]_vars

\* The state after an update on a file_id the session does not have, the
\* session being in progress with its current_file set; and the state after
\* an update on a session_id that was never registered.
C12_Witness ==
    /\ Last.op = "update" /\ Last.sid = "s1" /\ Present("s1")
    /\ Last.fid \notin FileKeys("s1")
    /\ Updated("s1") /\ Sess("s1").status = COMPLETED

\* ------------------------------------------------------------------ C15
\* C15: remove_session returns on any id; afterwards the id is in neither
\* map, every other session reads as before, and when the id was in neither
\* map already (unknown, or removed before) the registry is as it was.
C15_IdempotentRemove ==
    [][\A sid \in Sids :
          CallRemove(sid) =>
              /\ Last'.result = "returned"
              /\ ~Present(sid)' /\ file_progress'[sid] = None
              /\ \A o \in Sids \ {sid} : View'[o] = View[o]
              /\ (~Present(sid) /\ file_progress[sid] = None)
                     => Registry' = Registry]_vars

\* The state after remove_session on an id that was not registered, next to
\* a registered session with a completed file.
C15_Witness ==
    /\ Last.op = "remove" /\ Last.sid = "s2" /\ Last.i = 0
    /\ Present("s1") /\ NumWith("s1", COMPLETED) = 1

\* ------------------------------------------------------------------ C16
\* What initialize_session leaves for a session_id on an empty tracker.
FreshResult(session_id, file_ids, filenames) ==
    ToDict(InitializeSession(EmptyTracker, [t \in Threads |-> IdleThread], NoHandles,
                             session_id, file_ids, filenames),
           session_id)

\* C16: initialize_session on a session_id that is already registered
\* returns and replaces the old state: the files are exactly the new
\* file_ids, each pending with progress 0, completed_files =
\* failed_files = 0, overall_progress = 0, status pending, no
\* current_file; the session reads as a never-seen id initialized with the
\* same lists does.
C16_ReinitReplaces ==
    (Last.op = "initialize" /\ Last.i = 1) =>
        /\ Last.result = "returned"
        /\ Present(Last.sid)
        /\ FileKeys(Last.sid) = Range(Last.file_ids)
        /\ \A f \in FileKeys(Last.sid) :
              FileOf(Last.sid, f).status = PENDING /\ FileOf(Last.sid, f).progress = 0
        /\ Sess(Last.sid).completed_files = 0
        /\ Sess(Last.sid).failed_files = 0
        /\ Sess(Last.sid).overall_progress = 0
        /\ Sess(Last.sid).status = PENDING
        /\ Sess(Last.sid).current_file = None
        /\ View[Last.sid] = FreshResult(Last.sid, Last.file_ids, Last.filenames)

\* The state after initialize_session("s1", ["f2"], ...) on a registered s1.
C16_Witness ==
    /\ Last.op = "initialize" /\ Last.i = 1 /\ Last.sid = "s1"
    /\ Last.file_ids = <<"f2">>
    /\ FileKeys("s1") = {"f2"}

\* ------------------------------------------------------------------ C17
\* C17: update_file_progress (on known or unknown ids) and to_dict leave
\* every registered session registered with the same total_files and the
\* same file_ids in its file map, and each file with the same file_id and
\* filename.
C17_Frame ==
    [][(CallAnyUpdate \/ \E s \in Sids : CallToDict(s)) =>
          \A sid \in Sids : Present(sid) =>
              /\ Present(sid)'
              /\ Sess(sid)'.total_files = Sess(sid).total_files
              /\ FileKeys(sid)' = FileKeys(sid)
              /\ \A f \in FileKeys(sid) :
                    /\ FileOf(sid, f)'.file_id = FileOf(sid, f).file_id
                    /\ FileOf(sid, f)'.filename = FileOf(sid, f).filename]_vars

\* The state after an update that failed the second file of a two-file
\* session, with its error message stored.
C17_Witness ==
    /\ Last.op = "update" /\ Last.sid = "s1" /\ Last.fid = "f2"
    /\ Present("s1")
    /\ Sess("s1").total_files = 2 /\ FileKeys("s1") = {"f1", "f2"}
    /\ FileOf("s1", "f2").status = FAILED
    /\ FileOf("s1", "f2").error_message = "parse error"

\* ------------------------------------------------------------------ C13
\* C13: under every interleaving with remove_session or a
\* re-initialization of the same session in another thread,
\* update_file_progress returns normally: it never raises.
C13_NeverRaises ==
    \A t \in Threads : threads[t].op = "update" => threads[t].result # "raised"

\* ------------------- remove_session next to readers and writers of a session
RNext ==
    \E t \in Threads :
        \/ StartRemove(t, "s1")
        \/ StartToDict(t, "s1")
        \/ \E fid \in FileIds, u \in FinalUpdates : StartUpdate(t, "s1", fid, u[1], u[2], u[3])
        \/ RemoveStep(t)
        \/ ToDictStep(t)
        \/ UpdateStep(t)

RemovalSpec == WInit /\ [][RNext]_vars

\* ------------------------------------------------------------------ C14
\* Thread t is about to run line 129 and will find no SessionProgress for a
\* session whose file map it has just written to and which is still there.
SeesFileMapOnly(t) ==
    /\ threads[t].pc = "u129"
    /\ sessions[threads[t].sid] = None
    /\ file_progress[threads[t].sid] # None

\* to_dict of thread t returned a session without its files.
ReadSessionOnly(t) ==
    ReadBy(t) /\ Cardinality(DOMAIN threads[t].out.files) # threads[t].out.total_files

\* C14: no reader or writer running next to remove_session sees the session
\* in exactly one of the two maps: to_dict never returns a SessionProgress
\* without its file map, and update_file_progress never finds the file map
\* without the SessionProgress.
C14_RemoveAtomic ==
    \A t \in Threads : ~SeesFileMapOnly(t) /\ ~ReadSessionOnly(t)

\* ------------------------------------------- the progress stream (routes.py)
\* progress_stream.generate runs in the request thread "t2" while the tracker
\* operations of other requests run one at a time in between its steps.  Its
\* record in threads: pc, sid, i (iteration), session (session_progress) and
\* out, a tally of the frames it has yielded:
\*   frames  how many, error events included
\*   errors  error events (counted up to 2)
\*   late    frames yielded after an error event (counted up to 1)
\*   before  frames yielded before the first error event
\*   final   snapshot frames that show status completed or failed (up to 2)
\*   first   what the first frame showed: a status, or "none" for {}
\*   seen    line 307 has found the status completed or failed
max_iterations == 600
Stream == threads["t2"]
NoFrames == [frames |-> 0, errors |-> 0, late |-> 0, before |-> 0, final |-> 0,
             first |-> "unset", seen |-> FALSE]
UpTo(n, k) == IF n < k THEN n + 1 ELSE k

\* What a snapshot frame shows: to_sse_message(session_id) of lines 204-207.
Shown(session_id) ==
    IF ToDict(Cur, session_id) = << >> THEN "none" ELSE ToDict(Cur, session_id).status

\* The tally after yielding a frame that shows kind ("error" for an error event).
Yield(tally, kind) ==
    [tally EXCEPT !.frames = @ + 1,
                  !.errors = IF kind = "error" THEN UpTo(@, 2) ELSE @,
                  !.late   = IF tally.errors > 0 THEN 1 ELSE @,
                  !.before = IF kind = "error" /\ tally.errors = 0 THEN tally.frames ELSE @,
                  !.final  = IF kind \in {COMPLETED, FAILED} THEN UpTo(@, 2) ELSE @,
                  !.first  = IF tally.frames = 0 THEN kind ELSE @]

StreamTo(th) ==
    /\ Commit(Cur, [threads EXCEPT !["t2"] = th], handles)
    /\ UNCHANGED <<fdone, ftotal, fout>>

\* line 290: yield progress_tracker.to_sse_message(session_id)
G290 ==
    /\ Stream.pc = "g290"
    /\ StreamTo([Stream EXCEPT !.pc = "y290", !.out = Yield(@, Shown(Stream.sid))])

\* lines 293-294, once the consumer asks for the next frame
Y290 ==
    /\ Stream.pc = "y290"
    /\ StreamTo([Stream EXCEPT !.pc = "g296", !.i = 0])

\* line 296: while iteration < max_iterations
LoopTest(iteration) == iteration < max_iterations

\* lines 296-297: the loop test and session_progress = get_session_progress(...)
G296 ==
    /\ Stream.pc = "g296"
    /\ StreamTo(IF LoopTest(Stream.i)
                THEN [Stream EXCEPT !.pc = "g299",
                                    !.session = GetSessionProgress(Cur, Stream.sid)]
                ELSE [Stream EXCEPT !.pc = "g314", !.session = None])

\* lines 299-304: the error event when there is no session, else a snapshot
G299 ==
    /\ Stream.pc = "g299"
    /\ StreamTo(IF Stream.session = None
                THEN [Stream EXCEPT !.pc = "y300", !.out = Yield(@, "error")]
                ELSE [Stream EXCEPT !.pc = "y304", !.out = Yield(@, Shown(Stream.sid))])

\* line 301: break
Y300 ==
    /\ Stream.pc = "y300"
    /\ StreamTo([Stream EXCEPT !.pc = "g314"])

\* lines 307-308: the status of the object got at line 297, as it is now
\* (the object is not used again)
Y304 ==
    /\ Stream.pc = "y304"
    /\ StreamTo(IF heapS[Stream.session].status \in {COMPLETED, FAILED}
                THEN [Stream EXCEPT !.pc = "g314", !.session = None, !.out.seen = TRUE]
                ELSE [Stream EXCEPT !.pc = "g310", !.session = None])

\* Variant of lines 310-311 that sleeps without counting the iteration.
G310_NoCount ==
    /\ Stream.pc = "g310"
    /\ StreamTo([Stream EXCEPT !.pc = "g296"])

\* lines 310-311: time.sleep(1); iteration += 1
G310 ==
    /\ Stream.pc = "g310"
    /\ StreamTo([Stream EXCEPT !.pc = "g296", !.i = @ + 1])

\* line 314: the final frame
G314 ==
    /\ Stream.pc = "g314"
    /\ StreamTo([Stream EXCEPT !.pc = "y314", !.out = Yield(@, Shown(Stream.sid))])

\* the generator returns when asked for a frame after the final one
Y314 ==
    /\ Stream.pc = "y314"
    /\ StreamTo([Stream EXCEPT !.pc = "closed", !.result = "returned"])

\* Variant of lines 316-317 that still sends the final frame.
Disconnect_Final ==
    /\ Stream.pc \in {"y290", "y300", "y304", "y314"}
    /\ StreamTo([Stream EXCEPT !.pc = "g314", !.session = None])

\* lines 316-317: the client went away while the generator was at a yield
Disconnect ==
    /\ Stream.pc \in {"y290", "y300", "y304", "y314"}
    /\ StreamTo([Stream EXCEPT !.pc = "closed", !.session = None,
                               !.result = "disconnected"])

StreamStep ==
    \/ G290 \/ Y290 \/ G296 \/ G299 \/ Y300 \/ Y304 \/ G310 \/ G314 \/ Y314
    \/ Disconnect

\* The tracker calls of the other requests for the streamed session, each a
\* whole call between two steps of the stream: one extraction request
\* (initialize_session, then updates of its file) and, after it began, one
\* cleanup request (remove_session).  threads["t1"].calls is 1 once the
\* extraction began and 2 once the cleanup ran.
EnvDid(n) == [threads EXCEPT !["t1"].calls = n]

EnvInitialize ==
    /\ threads["t1"].calls = 0
    /\ HasFree(heapS) /\ HasFree(heapD) /\ HasFree(heapF)
    /\ Commit(InitializeSession(Cur, threads, handles, "s1", <<"f1">>, <<"a.pdf">>),
              EnvDid(1), handles)
    /\ UNCHANGED <<fdone, ftotal, fout>>

EnvUpdate(status, progress, error_message) ==
    /\ threads["t1"].calls >= 1
    /\ Commit(UpdateFileProgress(Cur, "s1", "f1", status, progress, error_message),
              threads, handles)
    /\ UNCHANGED <<fdone, ftotal, fout>>

EnvRemove ==
    /\ threads["t1"].calls = 1
    /\ Commit(RemoveSession(Cur, "s1"), EnvDid(2), handles)
    /\ UNCHANGED <<fdone, ftotal, fout>>

StreamEnv ==
    \/ EnvInitialize
    \/ \E u \in RouteUpdates : EnvUpdate(u[1], u[2], u[3])
    \/ EnvRemove

SInit ==
    /\ sessions = EmptyTracker.sessions
    /\ file_progress = EmptyTracker.file_progress
    /\ heapS = EmptyTracker.S
    /\ heapD = EmptyTracker.D
    /\ heapF = EmptyTracker.F
    /\ handles = NoHandles
    /\ threads = [t \in Threads |->
                     IF t = "t2" THEN [IdleThread EXCEPT !.pc = "g290", !.op = "stream",
                                                         !.out = NoFrames]
                     ELSE IdleThread]
    /\ FIdle

SNext == StreamStep \/ StreamEnv

\* The consumer keeps asking for frames or goes away, and sleep returns: weak
\* fairness of StreamStep.  A step of the stream is possible exactly when the
\* generator is not closed, so WF_vars(StreamStep) is written with that state
\* predicate in the place of ENABLED <<StreamStep>>_vars.
StreamFair == []<>(Stream.pc = "closed") \/ []<><<StreamStep>>_vars

StreamSpec == SInit /\ [][SNext]_vars /\ StreamFair

StreamOpenedEarly == Stream.out.first \in {PENDING, PROCESSING}

\* C18: a stream that was opened while its session was pending or processing
\* and that has found the status completed or failed at line 307 yields one
\* frame that shows the completed or failed status, the final one, before it
\* returns, and it does not reach the sleep of line 310 again.
C18_OneFinalFrame ==
    /\ (Stream.pc = "closed" /\ Stream.result = "returned"
            /\ StreamOpenedEarly /\ Stream.out.seen)
        => Stream.out.final <= 1
    /\ Stream.pc = "g310" => ~Stream.out.seen

\* C19: a stream that has yielded an error event (its session was unknown at
\* line 297) has yielded exactly one, has yielded no frame after it, and, when
\* the session was unknown from the start, no frame before it.
C19_SingleError ==
    Stream.out.errors >= 1 =>
        /\ Stream.out.errors = 1
        /\ Stream.out.late = 0
        /\ Stream.out.first = "none" => Stream.out.before = 0

\* C20: whatever the other requests do to the tracker, the stream never
\* counts more than 600 iterations, never yields more than 602 frames (nor
\* more than the initial frame, one per iteration begun and the final one),
\* and it closes.
C20_Terminates ==
    /\ [](/\ Stream.i <= max_iterations
          /\ Stream.out.frames <= max_iterations + 2
          /\ Stream.out.frames <= Stream.i + 3)
    /\ <>(Stream.pc = "closed")

C20_Witness ==
    /\ Stream.pc = "closed" /\ Stream.result = "returned"
    /\ Stream.i = max_iterations
    /\ Stream.out.frames = max_iterations + 2

\* ------------------------------------------------------------------ C22
KnownUpdate ==
    /\ Last.op = "update" /\ Last.i = 1
    /\ Last.fid \in FileKeys(Last.sid)

\* C22: right after update_file_progress(sid, fid, ...) on a registered
\* session and one of its files, current_file is the FileProgress that
\* get_file_progress(sid, fid) returns, with file_id = fid and the same
\* status, progress and error_message; and a session whose current_file is
\* absent keeps it absent until such an update (initialize_session makes it
\* absent again).
C22_CurrentFile ==
    /\ [](KnownUpdate =>
            /\ Sess(Last.sid).current_file = GetFileProgress(Cur, Last.sid, Last.fid)
            /\ heapF[Sess(Last.sid).current_file].file_id = Last.fid
            /\ ToDict(Cur, Last.sid).current_file = FileOf(Last.sid, Last.fid))
    /\ [](Last.op = "initialize" => Sess(Last.sid).current_file = None)
    /\ [][\A sid \in Sids :
            (/\ Present(sid) /\ Sess(sid).current_file = None
             /\ Present(sid)' /\ Sess(sid)'.current_file # None)
                => (KnownUpdate' /\ Last'.sid = sid)]_vars

\* The second file of a two-file session was updated after the first one.
C22_Witness ==
    /\ KnownUpdate /\ Last.sid = "s1" /\ Last.fid = "f2"
    /\ FileKeys("s1") = {"f1", "f2"}
    /\ FileOf("s1", "f1").status = COMPLETED
    /\ FileOf("s1", "f2").status = FAILED
    /\ heapF[Sess("s1").current_file].file_id = "f2"

\* ------------------------------------------------------------------ C25
\* C25: in every state, a file that has an error_message has status failed.
C25_ErrorOnlyWhenFailed ==
    \A sid \in Sids : \A f \in FileKeys(sid) :
        FileOf(sid, f).error_message # NoError => FileOf(sid, f).status = FAILED

\* ------------------------------------------------------------------ C27
NonTerminal == {PENDING, EXTRACTING, PROCESSING}
\* The session record without its current_file.
Derived(sid) == [Sess(sid) EXCEPT !.current_file = None]

\* C27: an update_file_progress that sets a file whose status is not
\* completed or failed to pending, extracting or processing leaves
\* completed_files, failed_files, overall_progress, the session status,
\* total_files, the set of files and every other file as they were; a
\* session none of whose files is completed or failed is pending; and a
\* session with total_files = 1 is never processing.
C27_NonTerminalFrame ==
    /\ [][\A sid \in Sids, fid \in FileIds :
            (/\ Present(sid) /\ fid \in FileKeys(sid)
             /\ FileOf(sid, fid).status \in NonTerminal
             /\ file_progress'[sid] = file_progress[sid]
             /\ FileOf(sid, fid)'.status \in NonTerminal) =>
                \A st \in NonTerminal, p \in ProgressArgs, e \in ErrorArgs :
                    (/\ FileOf(sid, fid)' = [FileOf(sid, fid) EXCEPT !.status = st,
                                                !.progress = p, !.error_message = e]
                     /\ Update(sid, fid, st, p, e))
                        => /\ Derived(sid)' = Derived(sid)
                           /\ FileKeys(sid)' = FileKeys(sid)
                           /\ \A g \in FileKeys(sid) \ {fid} :
                                 FileOf(sid, g)' = FileOf(sid, g)
                           /\ FileOf(sid, fid)'.status = st]_vars
    /\ [](\A sid \in Sids : Present(sid) =>
            /\ (\A f \in FileKeys(sid) : FileOf(sid, f).status \in NonTerminal)
                   => Sess(sid).status = PENDING
            /\ Sess(sid).total_files = 1 => Sess(sid).status # PROCESSING)

\* A pending two-file session whose last update set f2 to processing while f1
\* is extracting.
C27_Witness ==
    /\ Present("s1") /\ FileKeys("s1") = {"f1", "f2"}
    /\ FileOf("s1", "f1").status = EXTRACTING
    /\ FileOf("s1", "f2").status = PROCESSING
    /\ Sess("s1").current_file = GetFileProgress(Cur, "s1", "f2")
    /\ Sess("s1").status = PENDING /\ Sess("s1").overall_progress = 0

\* ------------------------------------------------------------------ C21
\* C21: when the client disconnects while the generator is suspended at a
\* yield, the generator is closed at once with nothing raised: the frames and
\* error events it has yielded and its iteration count stay as they are, then
\* and ever after (no further frame, error event or sleep).
C21_DisconnectCloses ==
    /\ [][Disconnect => /\ Stream'.pc = "closed"
                        /\ Stream'.result = "disconnected"
                        /\ Stream'.out = Stream.out
                        /\ Stream'.i = Stream.i]_vars
    /\ [][Stream.pc = "closed" => Stream' = Stream]_vars

\* The client went away during the loop, after the snapshot of the second
\* iteration.
C21_Witness ==
    /\ Stream.pc = "closed" /\ Stream.result = "disconnected"
    /\ Stream.i = 1 /\ Stream.out.frames = 3 /\ Stream.out.errors = 0

\* ------------------------------------------------------------------ C30
\* C30: when the generator has left its loop because line 307 found the
\* status completed or failed, the final frame (line 314), the last one it
\* yields, shows status completed or failed.
C30_LastFrameTerminal ==
    [][(G314 /\ Stream.out.seen) => Shown(Stream.sid) \in {COMPLETED, FAILED}]_vars

\* ------------------------------------------------------------------ C28
\* The calls with a repeated file_id or fewer filenames than file_ids.
ShortLists ==
    {a \in [ids : ListsOver(FileIds), names : NameLists] :
        ~Unique(a.ids) \/ Len(a.names) < Len(a.ids)}

\* C28: from every state, initialize_session with duplicate file_ids, or
\* with fewer filenames than file_ids, sets total_files = len(file_ids) and
\* registers fewer files than that; and as long as a session has fewer files
\* than total_files, completed_files + failed_files < total_files, its
\* status is neither completed nor failed and overall_progress is below 100.
C28_NeverFinishes ==
    /\ \A sid \in InitSids, a \in ShortLists :
          (/\ HasFree(heapS) /\ HasFree(heapD)
           /\ Cardinality(FreeSlots(heapF)) >= ZipLen(a.ids, a.names)) =>
              LET T == InitializeSession(Cur, threads, handles, sid, a.ids, a.names)
                  n == Cardinality({f \in FileIds :
                                       T.D[T.file_progress[sid]].items[f] # None})
              IN  T.S[T.sessions[sid]].total_files = Len(a.ids) /\ n < Len(a.ids)
    /\ \A sid \in Sids :
          (Present(sid) /\ Cardinality(FileKeys(sid)) < Sess(sid).total_files)
              => /\ Done(sid) < Sess(sid).total_files
                 /\ ~Terminal(sid)
                 /\ Sess(sid).overall_progress < 100

\* initialize_session got two file_ids and registered one file, and that
\* file is completed: the session is processing at 50.
C28_Witness ==
    /\ Present("s1") /\ Sess("s1").total_files = 2
    /\ FileKeys("s1") = {"f1"} /\ FileOf("s1", "f1").status = COMPLETED
    /\ Sess("s1").completed_files = 1
    /\ Sess("s1").status = PROCESSING /\ Sess("s1").overall_progress = 50

\* ------------------------------------------ extract_pdfs (routes.py), by line
\* One run of extract_pdfs on a validated request, alone on the tracker.  Its
\* record in threads["t1"]: sid, file_ids and filenames (file_ids_list and
\* filenames_list of lines 151-152), i (the position of file_data in
\* files_data), completed (successful), failed, and out, the (status,
\* progress) pairs of the updates issued for the current file_data.
Run == threads["t1"]

RunTo(T, th) ==
    /\ Commit(T, [threads EXCEPT !["t1"] = th], handles)
    /\ UNCHANGED <<fdone, ftotal, fout>>

\* update_file_progress(session_id, file_id, ...) for the current file_data
RunUpdate(status, progress, error_message) ==
    UpdateFileProgress(Cur, Run.sid, Run.file_ids[Run.i], status, progress, error_message)

XInit ==
    /\ sessions = EmptyTracker.sessions
    /\ file_progress = EmptyTracker.file_progress
    /\ heapS = EmptyTracker.S
    /\ heapD = EmptyTracker.D
    /\ heapF = EmptyTracker.F
    /\ handles = NoHandles
    /\ FIdle
    /\ \E ids \in ListsOver(FileIds) :
          /\ Len(ids) >= 1     \* line 147: an empty files list is refused
          /\ threads = [t \in Threads |->
                           IF t = "t1"
                           THEN [IdleThread EXCEPT !.pc = "x153", !.op = "extract",
                                     !.file_ids = ids,
                                     !.filenames = SubSeq(AllNames, 1, Len(ids))]
                           ELSE IdleThread]

\* lines 153-159: initialize_session, successful = 0, failed = 0
X153 ==
    /\ Run.pc = "x153"
    /\ RunTo(InitializeSession(Cur, threads, handles, Run.sid, Run.file_ids, Run.filenames),
             [Run EXCEPT !.pc = "x167", !.i = 1, !.completed = 0, !.failed = 0])

\* Variant of lines 161-177 that initializes the session again for every
\* file_data.
X167_Reinit ==
    /\ Run.pc = "x167" /\ Run.i <= Len(Run.file_ids)
    /\ \E next \in {"x245", "x178", "x197"} :
          RunTo(UpdateFileProgress(
                    InitializeSession(Cur, threads, handles, Run.sid, Run.file_ids,
                                      Run.filenames),
                    Run.sid, Run.file_ids[Run.i], EXTRACTING, 25, NoError),
                [Run EXCEPT !.pc = next, !.out = << <<EXTRACTING, 25>> >>])

\* lines 161-177: the next file_data, its extracting update, then
\* get_file_path and extract_pdf, which raise, fail or succeed
X167 ==
    /\ Run.pc = "x167" /\ Run.i <= Len(Run.file_ids)
    /\ \E next \in {"x245", "x178", "x197"} :
          RunTo(RunUpdate(EXTRACTING, 25, NoError),
                [Run EXCEPT !.pc = next, !.out = << <<EXTRACTING, 25>> >>])

\* lines 197-227: the processing update, then get_combined_content,
\* process_extraction and parse_csv_row_to_dict, which raise, fail or succeed
X197 ==
    /\ Run.pc = "x197"
    /\ \E next \in {"x245", "x208", "x230"} :
          RunTo(RunUpdate(PROCESSING, 50, NoError),
                [Run EXCEPT !.pc = next, !.out = Append(@, <<PROCESSING, 50>>)])

\* Variant of lines 178-194 without the continue of line 194: the run goes
\* on to line 197 for the same file_data.
XFailed_NoContinue(site, error_message) ==
    /\ Run.pc = site
    /\ site = "x245" => error_message # NoError
    /\ RunTo(RunUpdate(FAILED, 100, error_message),
             IF site = "x178"
             THEN [Run EXCEPT !.pc = "x197", !.failed = @ + 1,
                              !.out = Append(@, <<FAILED, 100>>)]
             ELSE [Run EXCEPT !.pc = "x167", !.i = @ + 1, !.failed = @ + 1,
                              !.out = Append(@, <<FAILED, 100>>)])

\* lines 178-194, 208-224 and 245-259: the failed update with the result's
\* error_message (which may be None) or str(e), failed += 1, next file_data
XFailed(site, error_message) ==
    /\ Run.pc = site
    /\ site = "x245" => error_message # NoError
    /\ RunTo(RunUpdate(FAILED, 100, error_message),
             [Run EXCEPT !.pc = "x167", !.i = @ + 1, !.failed = @ + 1,
                         !.out = Append(@, <<FAILED, 100>>)])

\* Variant of lines 230-241 that does not count the file as successful.
X230_NoCount ==
    /\ Run.pc = "x230"
    /\ RunTo(RunUpdate(COMPLETED, 100, NoError),
             [Run EXCEPT !.pc = "x167", !.i = @ + 1,
                         !.out = Append(@, <<COMPLETED, 100>>)])

\* lines 230-241: the completed update, successful += 1, next file_data
X230 ==
    /\ Run.pc = "x230"
    /\ RunTo(RunUpdate(COMPLETED, 100, NoError),
             [Run EXCEPT !.pc = "x167", !.i = @ + 1, !.completed = @ + 1,
                         !.out = Append(@, <<COMPLETED, 100>>)])

\* lines 261-270: the loop is over, the response is returned
X261 ==
    /\ Run.pc = "x167" /\ Run.i > Len(Run.file_ids)
    /\ RunTo(Cur, [Run EXCEPT !.pc = "returned", !.result = "returned"])

XNext ==
    \/ X153 \/ X167 \/ X197 \/ X230 \/ X261
    \/ \E site \in {"x178", "x208", "x245"}, e \in ErrorArgs : XFailed(site, e)

ExtractSpec == XInit /\ [][XNext]_vars

\* ------------------------------------------------------------------ C23
\* The update sequences of one file, and their beginnings.
FileRuns ==
    { << <<EXTRACTING, 25>>, <<FAILED, 100>> >>,
      << <<EXTRACTING, 25>>, <<PROCESSING, 50>>, <<FAILED, 100>> >>,
      << <<EXTRACTING, 25>>, <<PROCESSING, 50>>, <<COMPLETED, 100>> >> }
FileRunStarts == UNION {{SubSeq(r, 1, n) : n \in 0..Len(r)} : r \in FileRuns}
\* The run has issued the last update of the file_data before position i.
BetweenFiles == Run.pc \in {"x167", "returned"}

\* C23: in a run of extract_pdfs over unique file_ids, the updates issued
\* for a file are extracting 25, then possibly processing 50, then exactly
\* one of completed 100 or failed 100, and nothing after it: the updates of
\* the current file are the beginning of such a sequence and the file
\* record shows the last of them, every file the loop is through with has
\* had a whole sequence and stays completed or failed at 100, and a file
\* the loop has not reached is still pending at 0.
C23_UpdateOrder ==
    (Unique(Run.file_ids) /\ Run.pc # "x153") =>
        /\ Run.out \in FileRunStarts
        /\ (BetweenFiles /\ Run.i > 1) => Run.out \in FileRuns
        /\ \A j \in 1..Len(Run.file_ids) :
              LET f == FileOf(Run.sid, Run.file_ids[j])
              IN  /\ j < Run.i => f.status \in {COMPLETED, FAILED} /\ f.progress = 100
                  /\ (j = Run.i /\ ~BetweenFiles) =>
                        <<f.status, f.progress>> = Run.out[Len(Run.out)]
                  /\ (j > Run.i \/ (j = Run.i /\ BetweenFiles)) =>
                        f.status = PENDING /\ f.progress = 0

\* The run over f1, f2 has returned: f1 completed, f2 failed after its
\* processing update.
C23_Witness ==
    /\ Run.pc = "returned" /\ Run.file_ids = <<"f1", "f2">>
    /\ FileOf("s1", "f1").status = COMPLETED
    /\ FileOf("s1", "f2").status = FAILED
    /\ Run.out = << <<EXTRACTING, 25>>, <<PROCESSING, 50>>, <<FAILED, 100>> >>

\* ------------------------------------------------------------------ C24
Rank(status) ==
    IF status = PENDING THEN 0 ELSE IF status = PROCESSING THEN 1 ELSE 2

\* C24 as stated: during a run of extract_pdfs the session status never
\* moves back in the order pending, processing, completed or failed.
C24_Original ==
    [][\A sid \in Sids :
          (Present(sid) /\ Present(sid)')
              => Rank(Sess(sid)'.status) >= Rank(Sess(sid).status)]_vars

\* C24: during a run of extract_pdfs over unique file_ids the session
\* status never moves back in the order pending, processing, completed or
\* failed.
C24_StatusForward ==
    [][\A sid \in Sids :
          (Unique(Run.file_ids) /\ Present(sid) /\ Present(sid)')
              => Rank(Sess(sid)'.status) >= Rank(Sess(sid).status)]_vars

\* The first of two files is completed and the second has had its
\* extracting update: the session is still processing.
C24_Witness ==
    /\ Run.file_ids = <<"f1", "f2">> /\ Run.i = 2 /\ Run.pc = "x197"
    /\ FileOf("s1", "f1").status = COMPLETED
    /\ FileOf("s1", "f2").status = EXTRACTING
    /\ Sess("s1").status = PROCESSING

\* ------------------------------------------------------------------ C29
\* C29: when a run of extract_pdfs over unique file_ids returns, successful
\* = completed_files, failed = failed_files, successful + failed =
\* total_files, the session status is completed or failed, and it is failed
\* exactly when successful = 0.
C29_CountersAgree ==
    (Run.pc = "returned" /\ Unique(Run.file_ids)) =>
        /\ Run.completed = Sess(Run.sid).completed_files
        /\ Run.failed = Sess(Run.sid).failed_files
        /\ Run.completed + Run.failed = Sess(Run.sid).total_files
        /\ Terminal(Run.sid)
        /\ Sess(Run.sid).status = FAILED <=> Run.completed = 0

\* A returned run over two files, one successful and one failed.
C29_Witness ==
    /\ Run.pc = "returned" /\ Unique(Run.file_ids) /\ Len(Run.file_ids) = 2
    /\ Run.completed = 1 /\ Run.failed = 1
    /\ Sess("s1").status = COMPLETED

\* ------------------------------- LLMProcessor._process_with_retry, by line
\* One call of _process_with_retry (llm_processor.py), kept in threads["t1"]:
\*   provider    the provider name process_extraction resolves (line 86)
\*   client      the provider's client was initialized
\*   cached      the cache holds a result for this file (line 90)
\*   content_ok  the content can be hashed for the cache key (line 89)
\*   attempt     the loop variable of line 285
\*   calls       provider API calls made
\*   failures    provider API calls that failed
\*   waited      seconds slept at line 301
\*   result      what the call returned
max_retries == 3
Retry == threads["t1"]

RetryTo(th) ==
    /\ threads' = [threads EXCEPT !["t1"] = th]
    /\ UNCHANGED <<sessions, file_progress, heapS, heapD, heapF, handles,
                   fdone, ftotal, fout>>

LInit ==
    /\ sessions = EmptyTracker.sessions
    /\ file_progress = EmptyTracker.file_progress
    /\ heapS = EmptyTracker.S
    /\ heapD = EmptyTracker.D
    /\ heapF = EmptyTracker.F
    /\ handles = NoHandles
    /\ FIdle
    /\ \E pr \in {"anthropic", "openai", "google", "other"}, cl \in BOOLEAN, ca \in BOOLEAN, ok \in BOOLEAN :
          threads = [t \in Threads |->
                        IF t = "t1"
                        THEN [pc |-> "r285", provider |-> pr, client |-> cl,
                              cached |-> ca, content_ok |-> ok, attempt |-> 0,
                              calls |-> 0, failures |-> 0, waited |-> 0,
                              result |-> "none"]
                        ELSE IdleThread]

\* line 285: for attempt in range(max_retries); line 304 after the loop
R285 ==
    /\ Retry.pc = "r285"
    /\ RetryTo(IF Retry.attempt < max_retries
               THEN [Retry EXCEPT !.pc = "p86"]
               ELSE [Retry EXCEPT !.pc = "returned", !.result = "unexpected"])

\* process_extraction, lines 86-95, outside its try: the cache key (raises
\* when the content cannot be hashed), the cached result, the prompt
P86 ==
    /\ Retry.pc = "p86"
    /\ RetryTo(IF ~Retry.content_ok THEN [Retry EXCEPT !.pc = "r288"]
               ELSE IF Retry.cached
                    THEN [Retry EXCEPT !.pc = "returned", !.result = "cached"]
               ELSE [Retry EXCEPT !.pc = "p98"])

\* process_extraction, lines 98-121: the provider call inside try / except
\* Exception.  An unsupported provider (line 106), a missing client (lines
\* 151, 183, 214) and a failed API call (lines 179, 210, 241) all end in the
\* except of line 114, which returns an LLMResult with success = False.
P98 ==
    /\ Retry.pc = "p98"
    /\ IF Retry.provider = "other" \/ ~Retry.client
       THEN RetryTo([Retry EXCEPT !.pc = "returned", !.result = "error_result"])
       ELSE \/ RetryTo([Retry EXCEPT !.pc = "returned", !.result = "success",
                                      !.calls = @ + 1, !.cached = TRUE])
            \/ RetryTo([Retry EXCEPT !.pc = "returned", !.result = "error_result",
                                      !.calls = @ + 1, !.failures = @ + 1])

\* lines 288-301: process_extraction raised
R288 ==
    /\ Retry.pc = "r288"
    /\ RetryTo(IF Retry.attempt = max_retries - 1
               THEN [Retry EXCEPT !.pc = "returned", !.result = "failed_after"]
               ELSE [Retry EXCEPT !.pc = "r285", !.attempt = @ + 1,
                                  !.waited = @ + 2 ^ Retry.attempt])

LNext == R285 \/ P86 \/ P98 \/ R288

RetrySpec == LInit /\ [][LNext]_vars

\* ------------------------------------------------------------------ C26
\* C26: when a provider call has failed, _process_with_retry returns only
\* after a later attempt succeeded or after max_retries attempts were made;
\* and it returns a failure only when the final attempt has failed.
C26_RetriesFailedCall ==
    (Retry.pc = "returned" /\ Retry.failures >= 1) =>
        \/ Retry.result = "success"
        \/ Retry.attempt = max_retries - 1 /\ Retry.calls = max_retries

\* ------------------------------------------------ the progress arithmetic
FInit == /\ ftotal \in 1..MaxTotal
         /\ fdone \in 0..MaxTotal
         /\ fdone <= ftotal
         /\ fout = -1
         /\ sessions = EmptyTracker.sessions
         /\ file_progress = EmptyTracker.file_progress
         /\ heapS = EmptyTracker.S
         /\ heapD = EmptyTracker.D
         /\ heapF = EmptyTracker.F
         /\ handles = NoHandles
         /\ threads = [t \in Threads |-> IdleThread]

\* line 147 applied to the drawn counts.
ComputeProgress ==
    /\ fout = -1
    /\ fout' = PercentOf(fdone, ftotal)
    /\ UNCHANGED <<fdone, ftotal, sessions, file_progress, heapS, heapD, heapF,
                   handles, threads>>

FNext == ComputeProgress
FSpec == FInit /\ [][FNext]_vars

\* ------------------------------------------------------------------ C4
\* C4: overall_progress is an integer in [0,100] and equals
\* floor(((completed_files + failed_files) / total_files) * 100).
C4_Floor ==
    fout # -1 => (fout \in 0..100 /\ fout = (100 * fdone) \div ftotal)
====
